---- MODULE Spec2Model ----
(***************************************************************************)
(* LinkPlace points ledger.                                                *)
(*                                                                         *)
(* Part 1 models the phase-1.5 points API (app/api/v1/endpoints/points.py):*)
(* the two module-level dictionaries fake_points_db and                    *)
(* fake_transactions_db and the handlers that read and write them.  Every  *)
(* handler is an `async def` without a single `await` in its body, so on   *)
(* the server's event loop a handler runs from its first line to its       *)
(* return (or raise) without another handler in between: one handler call  *)
(* is one action.                                                          *)
(*                                                                         *)
(* Part 2 models the phase-1 ORM class PointTransaction                    *)
(* (app/models/point_transaction.py) as a table of rows and its methods.   *)
(***************************************************************************)
EXTENDS Integers, FiniteSets, Sequences, TLC

VARIABLES
    fake_points_db,        \* dict: user e-mail -> balance aggregate
    fake_transactions_db,  \* dict: transaction id -> transaction
    last,                  \* the handler call that ran last, and its response
    clients,               \* requests of the concurrent callers (SpecRace)
    snap,                  \* fake_points_db when the first concurrent request was sent
    rows,                  \* phase 1: the point_transactions table, id -> row
    trip,                  \* the earn / approve / reverse sequence under way (SpecTrip)
    sent,                  \* fake_transactions_db when the concurrent requests were sent
    fake_campaigns_db,     \* dict: campaign id -> campaign
    fake_participations_db, \* dict: participation id -> participation
    lastc,                 \* the campaign handler call that ran last, and its response
    campaign_row,          \* phase 1: one row of the campaigns table (a Campaign)
    user_row,              \* phase 1: one row of the users table (a User)
    lastm                  \* phase 1: the method called last on them, and what it returned

apiVars == <<fake_points_db, fake_transactions_db, last>>
raceVars == <<clients, snap>>
ormVars == <<rows>>
scenVars == <<trip, sent>>
campVars == <<fake_campaigns_db, fake_participations_db, lastc>>
modelVars == <<campaign_row, user_row, lastm>>
vars == <<fake_points_db, fake_transactions_db, last, clients, snap, rows, trip, sent,
          fake_campaigns_db, fake_participations_db, lastc, campaign_row, user_row, lastm>>

(***************************************************************************)
(* Bounds of the model.                                                    *)
(***************************************************************************)
\* most entries fake_transactions_db holds (three exist at start)
MaxTx == 4
\* most entries created before the concurrent requests are sent (SpecRace)
MaxSetupTx == 1
\* most PointTransaction rows of the phase-1 table
MaxRows == 3
\* the campaigns and the participations the campaigns API may hold
MaxCampaigns == 3
MaxParticipations == 3
\* most total_points of the phase-1 User
MaxPoints == 150

\* callers: the two users the module starts with and one it has never seen
Users == {"admin@linkplace.com", "user1@example.com", "new@example.com"}
\* PointCreate.points is a plain int: any sign is accepted
PointAmounts == {-80, 80, 100}
\* transaction ids a caller may name (ids above the ledger's are not found)
TxIds == 1..(MaxTx + 1)

Max(S) == CHOOSE x \in S : \A y \in S : y <= x

(***************************************************************************)
(* Part 1: phase-1.5 points endpoints.                                     *)
(***************************************************************************)
InitPointsDb ==
    ("admin@linkplace.com" :>
        [total_points |-> 1500, available_points |-> 1200, pending_points |-> 300,
         used_points |-> 800, expired_points |-> 0])
    @@
    ("user1@example.com" :>
        [total_points |-> 850, available_points |-> 650, pending_points |-> 200,
         used_points |-> 350, expired_points |-> 50])

InitTransactionsDb ==
    (1 :> [id |-> 1, user_email |-> "admin@linkplace.com",
           transaction_type |-> "earned", points |-> 500, status |-> "completed"])
    @@
    (2 :> [id |-> 2, user_email |-> "admin@linkplace.com",
           transaction_type |-> "used", points |-> -200, status |-> "completed"])
    @@
    (3 :> [id |-> 3, user_email |-> "user1@example.com",
           transaction_type |-> "earned", points |-> 300, status |-> "pending"])

\* the balance a user without one is given
EmptyBalance ==
    [total_points |-> 0, available_points |-> 0, pending_points |-> 0,
     used_points |-> 0, expired_points |-> 0]

\* a variant of NewId that hands out the greatest key again
NewId_greatest(db) == IF DOMAIN db = {} THEN 1 ELSE Max(DOMAIN db)

\* new_id = max(fake_transactions_db.keys()) + 1 if fake_transactions_db else 1
NewId(db) == IF DOMAIN db = {} THEN 1 ELSE Max(DOMAIN db) + 1

Response(op, user, points, tid, detail) ==
    [op |-> op, user |-> user, points |-> points, tid |-> tid, detail |-> detail]

\* a variant of get_point_balance that stores nothing
get_point_balance_notStored(current_user) ==
    /\ last' = Response("balance", current_user, 0, 0, "ok")
    /\ UNCHANGED <<fake_points_db, fake_transactions_db>>

\* GET /balance: a caller without a balance gets an empty one stored
get_point_balance(current_user) ==
    /\ fake_points_db' =
          IF current_user \in DOMAIN fake_points_db
          THEN fake_points_db
          ELSE fake_points_db @@ (current_user :> EmptyBalance)
    /\ last' = Response("balance", current_user, 0, 0, "ok")
    /\ UNCHANGED fake_transactions_db

\* GET /history: the caller's entries are copied into a new list, which is
\* filtered, sorted and cut to a page; the dictionaries are only read
get_point_history(current_user) ==
    /\ last' = Response("history", current_user, 0, 0, "ok")
    /\ UNCHANGED <<fake_points_db, fake_transactions_db>>

\* the transaction earn_points stores
EarnTransaction(new_id, current_user, points) ==
    [id |-> new_id, user_email |-> current_user, transaction_type |-> "earned",
     points |-> points, status |-> "pending"]

\* a variant of EarnBalance that credits at once, without approval
EarnBalance_credited(balance, points) ==
    [balance EXCEPT !.available_points = @ + points, !.total_points = @ + points]

\* balance["pending_points"] += point_data.points
EarnBalance(balance, points) ==
    [balance EXCEPT !.pending_points = @ + points]

\* POST /earn
earn_points(current_user, points) ==
    LET new_id == NewId(fake_transactions_db)
        db == IF current_user \in DOMAIN fake_points_db
              THEN fake_points_db
              ELSE fake_points_db @@ (current_user :> EmptyBalance)
    IN  /\ fake_transactions_db' =
              fake_transactions_db @@ (new_id :> EarnTransaction(new_id, current_user, points))
        /\ fake_points_db' =
              [db EXCEPT ![current_user] = EarnBalance(@, points)]
        /\ last' = Response("earn", current_user, points, new_id, "ok")

\* a variant of InsufficientPoints that only looks for the balance
InsufficientPoints_unchecked(db, current_user, points) ==
    current_user \notin DOMAIN db

\* if not balance or balance["available_points"] < point_data.points
InsufficientPoints(db, current_user, points) ==
    IF current_user \notin DOMAIN db
    THEN TRUE
    ELSE db[current_user].available_points < points

\* the transaction use_points stores
UseTransaction(new_id, current_user, points) ==
    [id |-> new_id, user_email |-> current_user, transaction_type |-> "used",
     points |-> -points, status |-> "completed"]

\* a variant of UseBalance that forgets the used_points counter
UseBalance_uncounted(balance, points) ==
    [balance EXCEPT !.available_points = @ - points]

\* balance["available_points"] -= points; balance["used_points"] += points
UseBalance(balance, points) ==
    [balance EXCEPT !.available_points = @ - points, !.used_points = @ + points]

\* POST /use
use_points(current_user, points) ==
    IF InsufficientPoints(fake_points_db, current_user, points)
    THEN /\ last' = Response("use", current_user, points, 0, "Insufficient points")
         /\ UNCHANGED <<fake_points_db, fake_transactions_db>>
    ELSE LET new_id == NewId(fake_transactions_db)
         IN  /\ fake_transactions_db' =
                   fake_transactions_db @@ (new_id :> UseTransaction(new_id, current_user, points))
             /\ fake_points_db' =
                   [fake_points_db EXCEPT ![current_user] = UseBalance(@, points)]
             /\ last' = Response("use", current_user, points, new_id, "ok")

\* a variant of ApproveBalance that leaves the amount pending
ApproveBalance_stillPending(balance, points) ==
    [balance EXCEPT !.available_points = @ + points, !.total_points = @ + points]

\* available += points; pending -= points; total += points
ApproveBalance(balance, points) ==
    [balance EXCEPT !.available_points = @ + points,
                    !.pending_points = @ - points,
                    !.total_points = @ + points]

\* a variant of ApproveBalances that credits the administrator's balance
ApproveBalances_admin(db, transaction) ==
    IF transaction.transaction_type = "earned"
    THEN [db EXCEPT !["admin@linkplace.com"] = ApproveBalance(@, transaction.points)]
    ELSE db

\* if transaction["transaction_type"] == "earned": balance = fake_points_db.get(
\* user_email); if balance: the three balance fields are updated
ApproveBalances(db, transaction) ==
    IF /\ transaction.transaction_type = "earned"
       /\ transaction.user_email \in DOMAIN db
    THEN [db EXCEPT ![transaction.user_email] = ApproveBalance(@, transaction.points)]
    ELSE db

\* a variant of approve_transaction that does not look at the status
approve_transaction_anyStatus(transaction_id, current_user) ==
    IF transaction_id \notin DOMAIN fake_transactions_db
    THEN /\ last' = Response("approve", current_user, 0, transaction_id, "Transaction not found")
         /\ UNCHANGED <<fake_points_db, fake_transactions_db>>
    ELSE /\ fake_transactions_db' =
               [fake_transactions_db EXCEPT ![transaction_id].status = "completed"]
         /\ fake_points_db' =
               ApproveBalances(fake_points_db, fake_transactions_db[transaction_id])
         /\ last' = Response("approve", current_user, 0, transaction_id, "ok")

\* POST /approve/{transaction_id}
approve_transaction(transaction_id, current_user) ==
    IF transaction_id \notin DOMAIN fake_transactions_db
    THEN /\ last' = Response("approve", current_user, 0, transaction_id, "Transaction not found")
         /\ UNCHANGED <<fake_points_db, fake_transactions_db>>
    ELSE IF fake_transactions_db[transaction_id].status # "pending"
    THEN /\ last' = Response("approve", current_user, 0, transaction_id, "Transaction is not pending")
         /\ UNCHANGED <<fake_points_db, fake_transactions_db>>
    ELSE /\ fake_transactions_db' =
               [fake_transactions_db EXCEPT ![transaction_id].status = "completed"]
         /\ fake_points_db' =
               ApproveBalances(fake_points_db, fake_transactions_db[transaction_id])
         /\ last' = Response("approve", current_user, 0, transaction_id, "ok")

\* a variant of RejectBalance that takes the amount from the available points
RejectBalance_available(balance, points) ==
    [balance EXCEPT !.available_points = @ - points]

\* balance["pending_points"] -= transaction["points"]
RejectBalance(balance, points) ==
    [balance EXCEPT !.pending_points = @ - points]

\* if transaction["transaction_type"] == "earned": balance = fake_points_db.get(
\* user_email); if balance: pending_points is updated
RejectBalances(db, transaction) ==
    IF /\ transaction.transaction_type = "earned"
       /\ transaction.user_email \in DOMAIN db
    THEN [db EXCEPT ![transaction.user_email] = RejectBalance(@, transaction.points)]
    ELSE db

\* POST /reject/{transaction_id}
reject_transaction(transaction_id, current_user) ==
    IF transaction_id \notin DOMAIN fake_transactions_db
    THEN /\ last' = Response("reject", current_user, 0, transaction_id, "Transaction not found")
         /\ UNCHANGED <<fake_points_db, fake_transactions_db>>
    ELSE IF fake_transactions_db[transaction_id].status # "pending"
    THEN /\ last' = Response("reject", current_user, 0, transaction_id, "Transaction is not pending")
         /\ UNCHANGED <<fake_points_db, fake_transactions_db>>
    ELSE /\ fake_transactions_db' =
               [fake_transactions_db EXCEPT ![transaction_id].status = "failed"]
         /\ fake_points_db' =
               RejectBalances(fake_points_db, fake_transactions_db[transaction_id])
         /\ last' = Response("reject", current_user, 0, transaction_id, "ok")

InitApi ==
    /\ fake_points_db = InitPointsDb
    /\ fake_transactions_db = InitTransactionsDb
    /\ last = Response("start", "", 0, 0, "ok")

InitRace ==
    /\ clients = <<>>
    /\ snap = InitPointsDb

InitOrm == rows = <<>>

InitScen ==
    /\ trip = [pc |-> "idle", user |-> "", points |-> 0, tid |-> 0, before |-> 0]
    /\ sent = <<>>

\* the dates of the model are days; today is the day of every call
Today == 3
\* start_date and end_date of a campaign over by today and of one running
\* today
EndedDates == <<1, 2>>
RunningDates == <<1, 5>>

\* fake_campaigns_db as the module defines it: both campaigns ended in 2024
InitCampaignsDb ==
    (1 :> [id |-> 1, start_date |-> EndedDates[1], end_date |-> EndedDates[2],
           is_active |-> TRUE, max_participants |-> <<1000>>, current_participants |-> 45])
    @@ (2 :> [id |-> 2, start_date |-> EndedDates[1], end_date |-> EndedDates[2],
              is_active |-> TRUE, max_participants |-> <<500>>, current_participants |-> 123])

\* fake_participations_db as the module defines it
InitParticipationsDb ==
    (1 :> [id |-> 1, campaign_id |-> 1, user_email |-> "admin@linkplace.com",
           status |-> "completed", reward_claimed |-> TRUE])
    @@ (2 :> [id |-> 2, campaign_id |-> 2, user_email |-> "user1@example.com",
              status |-> "pending_review", reward_claimed |-> FALSE])

CampaignResponse(op, user_email, id, detail) ==
    [op |-> op, user |-> user_email, id |-> id, detail |-> detail]

InitCamp ==
    /\ fake_campaigns_db = InitCampaignsDb
    /\ fake_participations_db = InitParticipationsDb
    /\ lastc = CampaignResponse("start", "", 0, "ok")

\* a Campaign row as the columns' defaults leave it (status DRAFT, no
\* timestamp, total_spent 0) and a User row with no points
InitModels ==
    /\ campaign_row = [status |-> "draft", approved_at |-> <<>>, started_at |-> <<>>,
                       completed_at |-> <<>>, remaining_budget |-> 0,
                       total_spent |-> 0, numeric |-> "None"]
    /\ user_row = [total_points |-> 0, available_points |-> 0]
    /\ lastm = [op |-> "new", amount |-> 0, result |-> "None"]

Init == InitApi /\ InitRace /\ InitOrm /\ InitScen /\ InitCamp /\ InitModels

\* the model stops creating entries once the ledger holds MaxTx of them
Room == Cardinality(DOMAIN fake_transactions_db) < MaxTx

Balance(current_user) ==
    get_point_balance(current_user) /\ UNCHANGED <<raceVars, ormVars, scenVars, campVars, modelVars>>
History(current_user) ==
    get_point_history(current_user) /\ UNCHANGED <<raceVars, ormVars, scenVars, campVars, modelVars>>
Earn(current_user, points) ==
    Room /\ earn_points(current_user, points) /\ UNCHANGED <<raceVars, ormVars, scenVars, campVars, modelVars>>
Use(current_user, points) ==
    /\ Room \/ InsufficientPoints(fake_points_db, current_user, points)
    /\ use_points(current_user, points)
    /\ UNCHANGED <<raceVars, ormVars, scenVars, campVars, modelVars>>
Approve(tid, current_user) ==
    approve_transaction(tid, current_user) /\ UNCHANGED <<raceVars, ormVars, scenVars, campVars, modelVars>>
Reject(tid, current_user) ==
    reject_transaction(tid, current_user) /\ UNCHANGED <<raceVars, ormVars, scenVars, campVars, modelVars>>

Next ==
    \/ \E u \in Users : Balance(u)
    \/ \E u \in Users : History(u)
    \/ \E u \in Users, p \in PointAmounts : Earn(u, p)
    \/ \E u \in Users, p \in PointAmounts : Use(u, p)
    \/ \E t \in TxIds, u \in Users : Approve(t, u)
    \/ \E t \in TxIds, u \in Users : Reject(t, u)

Spec == Init /\ [][Next]_vars

(***************************************************************************)
(* Concurrent callers of POST /use.  Some calls are served first (the      *)
(* set-up); then every client of Clients has a request in flight at the    *)
(* same time, and the event loop runs the handlers one after another in    *)
(* any order.                                                              *)
(***************************************************************************)
Clients == {1, 2}
RaceAmounts == {80, 100}
Admin == "admin@linkplace.com"

SetupRoom ==
    /\ clients = <<>>
    /\ Cardinality(DOMAIN fake_transactions_db) < Cardinality(DOMAIN InitTransactionsDb) + MaxSetupTx

SetupEarn(current_user, points) ==
    SetupRoom /\ earn_points(current_user, points) /\ UNCHANGED <<raceVars, ormVars, scenVars, campVars, modelVars>>
SetupUse(current_user, points) ==
    /\ clients = <<>>
    /\ SetupRoom \/ InsufficientPoints(fake_points_db, current_user, points)
    /\ use_points(current_user, points)
    /\ UNCHANGED <<raceVars, ormVars, scenVars, campVars, modelVars>>
SetupApprove(tid) ==
    /\ clients = <<>>
    /\ approve_transaction(tid, Admin)
    /\ UNCHANGED <<raceVars, ormVars, scenVars, campVars, modelVars>>

\* every client sends its request; none has been handled yet
SendAll(requests) ==
    /\ clients = <<>>
    /\ clients' = [c \in Clients |->
                     [user |-> requests[c][1], points |-> requests[c][2],
                      pc |-> "sent", detail |-> ""]]
    /\ snap' = fake_points_db
    /\ UNCHANGED <<apiVars, ormVars, scenVars, campVars, modelVars>>

\* the event loop runs the handler of one request in flight
Handle(c) ==
    /\ clients # <<>>
    /\ clients[c].pc = "sent"
    /\ use_points(clients[c].user, clients[c].points)
    /\ clients' = [clients EXCEPT ![c].pc = "done", ![c].detail = last'.detail]
    /\ UNCHANGED <<snap, ormVars, scenVars, campVars, modelVars>>

NextRace ==
    \/ \E u \in Users, p \in RaceAmounts : SetupEarn(u, p)
    \/ \E u \in Users, p \in RaceAmounts : SetupUse(u, p)
    \/ \E t \in TxIds : SetupApprove(t)
    \/ \E r \in [Clients -> Users \X RaceAmounts] : SendAll(r)
    \/ \E c \in Clients : Handle(c)

SpecRace == Init /\ [][NextRace]_vars

(***************************************************************************)
(* Part 2: the phase-1 ORM class PointTransaction.  rows is the            *)
(* point_transactions table; a method call on a row is one action.  An     *)
(* optional column is a sequence: <<>> for None, <<v>> for the value v.    *)
(***************************************************************************)
UserIds == {7}
\* amounts handed to the factories
RowAmounts == {-50, 50}
\* expires_in_days: 0 disables the expiry; 365 is the default
ExpiresInDays == {0, 1, 365}
\* the day of the month at the time of the call, and the days of that month
ClockDays == {30, 31}
MonthDays == 1..31

Abs(n) == IF n < 0 THEN -n ELSE n

\* id = Column(Integer, primary_key=True): the next key of the table
NewRowId == Len(rows) + 1

\* PointTransaction(...): the columns the constructor is not given keep their
\* defaults (status COMPLETED, is_expired False) or stay None
Row(user_id, transaction_type, status, points, balance_before, balance_after, related_transaction_id, expires_at) ==
    [id |-> NewRowId, user_id |-> user_id, transaction_type |-> transaction_type,
     status |-> status, points |-> points,
     balance_before |-> balance_before, balance_after |-> balance_after,
     related_transaction_id |-> related_transaction_id,
     expires_at |-> expires_at, is_expired |-> FALSE]

\* set_expiry: utcnow().replace(day=utcnow().day + days_from_now) raises
\* ValueError when that day is not a day of the current month
ExpiryRaises(day, days_from_now) == (day + days_from_now) \notin MonthDays

\* the expires_at an earning transaction is created with
ExpiresAt(day, expires_in_days) ==
    IF expires_in_days > 0 THEN <<day + expires_in_days>> ELSE <<>>

\* create_earning_transaction, the row added to the table
create_earning_transaction(user_id, points, expires_in_days, day) ==
    /\ ~(expires_in_days > 0 /\ ExpiryRaises(day, expires_in_days))
    /\ rows' = Append(rows,
                  Row(user_id, "earned", "completed", Abs(points), <<>>, <<>>, <<>>,
                      ExpiresAt(day, expires_in_days)))

\* create_spending_transaction, the row added to the table
create_spending_transaction(user_id, points) ==
    rows' = Append(rows,
                Row(user_id, "spent", "completed", -Abs(points), <<>>, <<>>, <<>>, <<>>))

\* self.status = TransactionStatus.COMPLETED
complete(id) == rows' = [rows EXCEPT ![id].status = "completed"]

\* self.status = TransactionStatus.FAILED
fail(id) == rows' = [rows EXCEPT ![id].status = "failed"]

\* self.status = TransactionStatus.CANCELLED
cancel(id) == rows' = [rows EXCEPT ![id].status = "cancelled"]

\* the transaction reverse() builds from the row it is called on
ReverseTransaction(self) ==
    Row(self.user_id, "adjusted", "completed", -self.points, <<0>>, <<0>>,
        <<self.id>>, <<>>)

\* reverse: builds the reverse transaction, sets self.status = REVERSED and
\* returns the new transaction, which the caller adds to the table
reverse(id) ==
    rows' = Append([rows EXCEPT ![id].status = "reversed"], ReverseTransaction(rows[id]))

\* self.is_expired = True; self.status = TransactionStatus.COMPLETED
expire(id) == rows' = [rows EXCEPT ![id].is_expired = TRUE, ![id].status = "completed"]

\* the model stops adding rows once the table holds MaxRows of them
RowRoom == Len(rows) < MaxRows

CreateEarning(user_id, points, expires_in_days, day) ==
    /\ RowRoom
    /\ create_earning_transaction(user_id, points, expires_in_days, day)
    /\ UNCHANGED <<apiVars, raceVars, scenVars, campVars, modelVars>>
CreateSpending(user_id, points) ==
    RowRoom /\ create_spending_transaction(user_id, points) /\ UNCHANGED <<apiVars, raceVars, scenVars, campVars, modelVars>>
Complete(id) == complete(id) /\ UNCHANGED <<apiVars, raceVars, scenVars, campVars, modelVars>>
Fail(id) == fail(id) /\ UNCHANGED <<apiVars, raceVars, scenVars, campVars, modelVars>>
Cancel(id) == cancel(id) /\ UNCHANGED <<apiVars, raceVars, scenVars, campVars, modelVars>>
Reverse(id) == RowRoom /\ reverse(id) /\ UNCHANGED <<apiVars, raceVars, scenVars, campVars, modelVars>>
Expire(id) == expire(id) /\ UNCHANGED <<apiVars, raceVars, scenVars, campVars, modelVars>>

NextLedger ==
    \/ \E u \in UserIds, p \in RowAmounts, n \in ExpiresInDays, d \in ClockDays :
          CreateEarning(u, p, n, d)
    \/ \E u \in UserIds, p \in RowAmounts : CreateSpending(u, p)
    \/ \E id \in DOMAIN rows : Complete(id)
    \/ \E id \in DOMAIN rows : Fail(id)
    \/ \E id \in DOMAIN rows : Cancel(id)
    \/ \E id \in DOMAIN rows : Reverse(id)
    \/ \E id \in DOMAIN rows : Expire(id)

SpecLedger == Init /\ [][NextLedger]_vars

(***************************************************************************)
(* Part 3: the round trip earn, approve, reverse.  The API has no reverse  *)
(* endpoint; the only reversal in the repository is the method             *)
(* PointTransaction.reverse, which reads the id, the user and the points   *)
(* of the entry it is called on, writes its status and builds the reverse  *)
(* transaction.  Here it is applied to an entry of the API's ledger.       *)
(***************************************************************************)
\* the reverse transaction built from entry self, stored under new_id
ReverseEntry(self, new_id) ==
    [id |-> new_id, user_email |-> self.user_email, transaction_type |-> "adjusted",
     points |-> -self.points, status |-> "completed",
     related_transaction_id |-> self.id]

\* reverse() on the entry transaction_id: the method holds no reference to a
\* balance and assigns none
reverse_entry(transaction_id) ==
    LET self == fake_transactions_db[transaction_id]
        new_id == NewId(fake_transactions_db)
    IN  /\ fake_transactions_db' =
              [fake_transactions_db EXCEPT ![transaction_id].status = "reversed"]
                 @@ (new_id :> ReverseEntry(self, new_id))
        /\ fake_points_db' = fake_points_db
        /\ last' = Response("reverse", self.user_email, self.points, transaction_id, "ok")

\* the amounts of the round trip
TripAmounts == {80, 100}

\* calls served before the round trip starts
TripSetupEarn(current_user, points) == trip.pc = "idle" /\ SetupEarn(current_user, points)
TripSetupUse(current_user, points) == trip.pc = "idle" /\ SetupUse(current_user, points)
TripSetupApprove(tid) == trip.pc = "idle" /\ SetupApprove(tid)

\* earn(u, n): trip keeps the entry's id and the available points before it
TripEarn(current_user, points) ==
    /\ trip.pc = "idle"
    /\ earn_points(current_user, points)
    /\ trip' = [pc |-> "earned", user |-> current_user, points |-> points,
                tid |-> NewId(fake_transactions_db),
                before |-> IF current_user \in DOMAIN fake_points_db
                           THEN fake_points_db[current_user].available_points
                           ELSE 0]
    /\ UNCHANGED <<raceVars, ormVars, sent, campVars, modelVars>>

\* approve of that entry
TripApprove ==
    /\ trip.pc = "earned"
    /\ approve_transaction(trip.tid, Admin)
    /\ trip' = [trip EXCEPT !.pc = "approved"]
    /\ UNCHANGED <<raceVars, ormVars, sent, campVars, modelVars>>

\* reverse of that entry
TripReverse ==
    /\ trip.pc = "approved"
    /\ reverse_entry(trip.tid)
    /\ trip' = [trip EXCEPT !.pc = "reversed"]
    /\ UNCHANGED <<raceVars, ormVars, sent, campVars, modelVars>>

NextTrip ==
    \/ \E u \in Users, p \in RaceAmounts : TripSetupEarn(u, p)
    \/ \E u \in Users, p \in RaceAmounts : TripSetupUse(u, p)
    \/ \E t \in TxIds : TripSetupApprove(t)
    \/ \E u \in Users, p \in TripAmounts : TripEarn(u, p)
    \/ TripApprove
    \/ TripReverse

SpecTrip == Init /\ [][NextTrip]_vars

(***************************************************************************)
(* Part 4: concurrent callers of POST /use, POST /approve and POST         *)
(* /reject.  As in SpecRace some calls are served first; then every client *)
(* has a call in flight and the event loop runs the handlers one after     *)
(* another in any order: a handler is an async def without an await, so    *)
(* it runs from its first line to its return before another one starts.    *)
(***************************************************************************)
\* the ids the concurrent approve and reject calls name
CallIds == {3, 4}

\* the calls a client can have in flight
Calls ==
    [op : {"use"}, user : Users, points : RaceAmounts, tid : {0}]
      \cup [op : {"approve", "reject"}, user : {Admin}, points : {0}, tid : CallIds]

\* every client sends its call; none has been handled yet
SendCalls(calls) ==
    /\ clients = <<>>
    /\ clients' = [c \in Clients |->
                     [op |-> calls[c].op, user |-> calls[c].user,
                      points |-> calls[c].points, tid |-> calls[c].tid,
                      pc |-> "sent", detail |-> ""]]
    /\ snap' = fake_points_db
    /\ sent' = fake_transactions_db
    /\ UNCHANGED <<apiVars, ormVars, trip, campVars, modelVars>>

\* the event loop runs the handler of one call in flight
HandleCall(c) ==
    /\ clients # <<>>
    /\ clients[c].pc = "sent"
    /\ IF clients[c].op = "use" THEN use_points(clients[c].user, clients[c].points)
       ELSE IF clients[c].op = "approve"
       THEN approve_transaction(clients[c].tid, clients[c].user)
       ELSE reject_transaction(clients[c].tid, clients[c].user)
    /\ clients' = [clients EXCEPT ![c].pc = "done", ![c].detail = last'.detail]
    /\ UNCHANGED <<snap, ormVars, scenVars, campVars, modelVars>>

NextSerial ==
    \/ \E u \in Users, p \in RaceAmounts : SetupEarn(u, p)
    \/ \E u \in Users, p \in RaceAmounts : SetupUse(u, p)
    \/ \E t \in TxIds : SetupApprove(t)
    \/ \E calls \in [Clients -> Calls] : SendCalls(calls)
    \/ \E c \in Clients : HandleCall(c)

SpecSerial == Init /\ [][NextSerial]_vars

\* use_points run alone on the dictionaries state: the dictionaries it leaves
ServeUse(state, call) ==
    IF InsufficientPoints(state.points_db, call.user, call.points)
    THEN state
    ELSE LET new_id == NewId(state.tx_db)
         IN  [points_db |-> [state.points_db EXCEPT
                               ![call.user] = UseBalance(@, call.points)],
              tx_db |-> state.tx_db @@
                          (new_id :> UseTransaction(new_id, call.user, call.points))]

\* approve_transaction run alone on the dictionaries state
ServeApprove(state, call) ==
    IF call.tid \notin DOMAIN state.tx_db THEN state
    ELSE IF state.tx_db[call.tid].status # "pending" THEN state
    ELSE [points_db |-> ApproveBalances(state.points_db, state.tx_db[call.tid]),
          tx_db |-> [state.tx_db EXCEPT ![call.tid].status = "completed"]]

\* reject_transaction run alone on the dictionaries state
ServeReject(state, call) ==
    IF call.tid \notin DOMAIN state.tx_db THEN state
    ELSE IF state.tx_db[call.tid].status # "pending" THEN state
    ELSE [points_db |-> RejectBalances(state.points_db, state.tx_db[call.tid]),
          tx_db |-> [state.tx_db EXCEPT ![call.tid].status = "failed"]]

\* one call run alone
ServeCall(state, call) ==
    IF call.op = "use" THEN ServeUse(state, call)
    ELSE IF call.op = "approve" THEN ServeApprove(state, call)
    ELSE ServeReject(state, call)

RECURSIVE ServeInOrder(_, _, _)
\* the calls of the clients order[i], order[i+1], ... run one after another
ServeInOrder(state, order, i) ==
    IF i > Len(order) THEN state
    ELSE ServeInOrder(ServeCall(state, clients[order[i]]), order, i + 1)

\* the serial orders of the clients
Orders ==
    {order \in [1..Cardinality(Clients) -> Clients] :
        \A i, j \in DOMAIN order : i # j => order[i] # order[j]}

(***************************************************************************)
(* Part 5: the campaigns API of phase 1.5 (endpoints/campaigns.py).  As in *)
(* part 1 a handler is one action; lastc records the call and the detail   *)
(* of its answer ("ok" when it did not raise).  The list and detail reads  *)
(* change no field another handler reads and are left out.                 *)
(***************************************************************************)
\* the campaign ids of the requests: a campaign of the module, the ones
\* created since, and one that does not exist
CampaignIds == 2..(MaxCampaigns + 1)
ParticipationIds == 1..(MaxParticipations + 1)
\* max_participants of a new campaign: None, 0 or 1
NewMaxParticipants == {<<>>, <<0>>, <<1>>}
\* the dates of a new campaign (the campaigns of the module are over)
NewDates == {RunningDates}
\* the bodies of PUT /{campaign_id}: only the fields that were sent
UpdateData == << [max_participants |-> <<2>>] >>

\* POST /: the new campaign gets the next id and no participant
create_campaign(dates, max_participants, current_user) ==
    LET new_id == NewId(fake_campaigns_db)
    IN  /\ fake_campaigns_db' = fake_campaigns_db @@
              (new_id :> [id |-> new_id, start_date |-> dates[1], end_date |-> dates[2],
                          is_active |-> TRUE, max_participants |-> max_participants,
                          current_participants |-> 0])
        /\ lastc' = CampaignResponse("create", current_user, new_id, "ok")
        /\ UNCHANGED fake_participations_db

\* campaign.update(update_data)
UpdatedCampaign(campaign, update_data) ==
    [f \in DOMAIN campaign |->
        IF f \in DOMAIN update_data THEN update_data[f] ELSE campaign[f]]

\* PUT /{campaign_id}
update_campaign(campaign_id, update_data, current_user) ==
    IF campaign_id \notin DOMAIN fake_campaigns_db
    THEN /\ lastc' = CampaignResponse("update", current_user, campaign_id, "Campaign not found")
         /\ UNCHANGED <<fake_campaigns_db, fake_participations_db>>
    ELSE /\ fake_campaigns_db' =
               [fake_campaigns_db EXCEPT ![campaign_id] = UpdatedCampaign(@, update_data)]
         /\ lastc' = CampaignResponse("update", current_user, campaign_id, "ok")
         /\ UNCHANGED fake_participations_db

\* DELETE /{campaign_id}: the campaign is kept and made inactive
delete_campaign(campaign_id, current_user) ==
    IF campaign_id \notin DOMAIN fake_campaigns_db
    THEN /\ lastc' = CampaignResponse("delete", current_user, campaign_id, "Campaign not found")
         /\ UNCHANGED <<fake_campaigns_db, fake_participations_db>>
    ELSE /\ fake_campaigns_db' = [fake_campaigns_db EXCEPT ![campaign_id].is_active = FALSE]
         /\ lastc' = CampaignResponse("delete", current_user, campaign_id, "ok")
         /\ UNCHANGED fake_participations_db

\* campaign.get("max_participants") and current_participants >= max_participants:
\* None and 0 are both false, so a maximum of 0 is no maximum
MaxReached(campaign) ==
    IF campaign.max_participants = <<>> THEN FALSE
    ELSE IF campaign.max_participants[1] = 0 THEN FALSE
    ELSE campaign.current_participants >= campaign.max_participants[1]

\* any(p["campaign_id"] == campaign_id and p["user_email"] == current_user ...)
existing_participation(campaign_id, current_user) ==
    \E p \in DOMAIN fake_participations_db :
        /\ fake_participations_db[p].campaign_id = campaign_id
        /\ fake_participations_db[p].user_email = current_user

\* the detail of the error participate_campaign raises, "ok" when it raises none
ParticipateDetail(campaign_id, current_user) ==
    IF campaign_id \notin DOMAIN fake_campaigns_db THEN "Campaign not found"
    ELSE IF ~fake_campaigns_db[campaign_id].is_active THEN "Campaign is not active"
    ELSE IF ~(fake_campaigns_db[campaign_id].start_date <= Today
              /\ Today <= fake_campaigns_db[campaign_id].end_date)
    THEN "Campaign is not currently running"
    ELSE IF MaxReached(fake_campaigns_db[campaign_id])
    THEN "Campaign has reached maximum participants"
    ELSE IF existing_participation(campaign_id, current_user)
    THEN "Already participated in this campaign"
    ELSE "ok"

\* POST /{campaign_id}/participate
participate_campaign(campaign_id, current_user) ==
    LET detail == ParticipateDetail(campaign_id, current_user)
        new_id == NewId(fake_participations_db)
    IN  IF detail # "ok"
        THEN /\ lastc' = CampaignResponse("participate", current_user, campaign_id, detail)
             /\ UNCHANGED <<fake_campaigns_db, fake_participations_db>>
        ELSE /\ fake_participations_db' = fake_participations_db @@
                   (new_id :> [id |-> new_id, campaign_id |-> campaign_id,
                               user_email |-> current_user, status |-> "pending_review",
                               reward_claimed |-> FALSE])
             /\ fake_campaigns_db' =
                   [fake_campaigns_db EXCEPT ![campaign_id].current_participants = @ + 1]
             /\ lastc' = CampaignResponse("participate", current_user, campaign_id, "ok")

\* POST /participations/{participation_id}/approve
approve_participation(participation_id, current_user) ==
    IF participation_id \notin DOMAIN fake_participations_db
    THEN /\ lastc' = CampaignResponse("approve", current_user, participation_id,
                                      "Participation not found")
         /\ UNCHANGED <<fake_campaigns_db, fake_participations_db>>
    ELSE IF fake_participations_db[participation_id].status # "pending_review"
    THEN /\ lastc' = CampaignResponse("approve", current_user, participation_id,
                                      "Participation is not pending review")
         /\ UNCHANGED <<fake_campaigns_db, fake_participations_db>>
    ELSE /\ fake_participations_db' =
               [fake_participations_db EXCEPT ![participation_id].status = "completed"]
         /\ lastc' = CampaignResponse("approve", current_user, participation_id, "ok")
         /\ UNCHANGED fake_campaigns_db

\* POST /participations/{participation_id}/reject
reject_participation(participation_id, current_user) ==
    IF participation_id \notin DOMAIN fake_participations_db
    THEN /\ lastc' = CampaignResponse("reject", current_user, participation_id,
                                      "Participation not found")
         /\ UNCHANGED <<fake_campaigns_db, fake_participations_db>>
    ELSE IF fake_participations_db[participation_id].status # "pending_review"
    THEN /\ lastc' = CampaignResponse("reject", current_user, participation_id,
                                      "Participation is not pending review")
         /\ UNCHANGED <<fake_campaigns_db, fake_participations_db>>
    ELSE /\ fake_participations_db' =
               [fake_participations_db EXCEPT ![participation_id].status = "rejected"]
         /\ lastc' = CampaignResponse("reject", current_user, participation_id, "ok")
         /\ UNCHANGED fake_campaigns_db

\* a variant of ClaimDetail without the test of reward_claimed
ClaimDetail_again(participation, current_user) ==
    IF participation.user_email # current_user THEN "Permission denied"
    ELSE IF participation.status # "completed" THEN "Participation is not completed"
    ELSE "ok"

\* the detail of the error claim_reward raises for a participation that
\* exists, "ok" when it raises none
ClaimDetail(participation, current_user) ==
    IF participation.user_email # current_user THEN "Permission denied"
    ELSE IF participation.status # "completed" THEN "Participation is not completed"
    ELSE IF participation.reward_claimed THEN "Reward already claimed"
    ELSE "ok"

\* POST /participations/{participation_id}/claim-reward
claim_reward(participation_id, current_user) ==
    IF participation_id \notin DOMAIN fake_participations_db
    THEN /\ lastc' = CampaignResponse("claim", current_user, participation_id,
                                      "Participation not found")
         /\ UNCHANGED <<fake_campaigns_db, fake_participations_db>>
    ELSE LET detail == ClaimDetail(fake_participations_db[participation_id], current_user)
         IN  IF detail # "ok"
             THEN /\ lastc' = CampaignResponse("claim", current_user, participation_id, detail)
                  /\ UNCHANGED <<fake_campaigns_db, fake_participations_db>>
             ELSE /\ fake_participations_db' =
                        [fake_participations_db EXCEPT ![participation_id].reward_claimed = TRUE]
                  /\ lastc' = CampaignResponse("claim", current_user, participation_id, "ok")
                  /\ UNCHANGED fake_campaigns_db

\* the model stops creating campaigns and participations at the bounds
CampaignRoom == Cardinality(DOMAIN fake_campaigns_db) < MaxCampaigns
ParticipationRoom == Cardinality(DOMAIN fake_participations_db) < MaxParticipations

CreateCampaign(dates, max_participants, current_user) ==
    /\ CampaignRoom
    /\ create_campaign(dates, max_participants, current_user)
    /\ UNCHANGED <<apiVars, raceVars, ormVars, scenVars, modelVars>>
UpdateCampaign(campaign_id, update_data, current_user) ==
    /\ update_campaign(campaign_id, update_data, current_user)
    /\ UNCHANGED <<apiVars, raceVars, ormVars, scenVars, modelVars>>
DeleteCampaign(campaign_id, current_user) ==
    /\ delete_campaign(campaign_id, current_user)
    /\ UNCHANGED <<apiVars, raceVars, ormVars, scenVars, modelVars>>
Participate(campaign_id, current_user) ==
    /\ ParticipationRoom \/ ParticipateDetail(campaign_id, current_user) # "ok"
    /\ participate_campaign(campaign_id, current_user)
    /\ UNCHANGED <<apiVars, raceVars, ormVars, scenVars, modelVars>>
ApproveParticipation(participation_id, current_user) ==
    /\ approve_participation(participation_id, current_user)
    /\ UNCHANGED <<apiVars, raceVars, ormVars, scenVars, modelVars>>
RejectParticipation(participation_id, current_user) ==
    /\ reject_participation(participation_id, current_user)
    /\ UNCHANGED <<apiVars, raceVars, ormVars, scenVars, modelVars>>
ClaimReward(participation_id, current_user) ==
    /\ claim_reward(participation_id, current_user)
    /\ UNCHANGED <<apiVars, raceVars, ormVars, scenVars, modelVars>>

\* the handlers that manage the campaigns, and the participation
NextCampaign ==
    \/ \E d \in NewDates, m \in NewMaxParticipants : CreateCampaign(d, m, Admin)
    \/ \E c \in CampaignIds, i \in DOMAIN UpdateData : UpdateCampaign(c, UpdateData[i], Admin)
    \/ \E c \in CampaignIds : DeleteCampaign(c, Admin)
    \/ \E c \in CampaignIds, u \in Users : Participate(c, u)

SpecCampaign == Init /\ [][NextCampaign]_vars

\* the handlers a participation goes through, from the participation in a
\* campaign to the claim of its reward
NextParticipation ==
    \/ \E d \in NewDates, m \in NewMaxParticipants : CreateCampaign(d, m, Admin)
    \/ \E c \in CampaignIds, u \in Users : Participate(c, u)
    \/ \E p \in ParticipationIds : ApproveParticipation(p, Admin)
    \/ \E p \in ParticipationIds : RejectParticipation(p, Admin)
    \/ \E p \in ParticipationIds, u \in Users : ClaimReward(p, u)

SpecParticipation == Init /\ [][NextParticipation]_vars

(***************************************************************************)
(* Part 6: the phase-1 ORM classes Campaign and User.  campaign_row and    *)
(* user_row are one row each; a method call is one action and lastm keeps  *)
(* the method, its amount and what it returned.  The budget columns are    *)
(* Numeric: a row loaded from the database holds Decimal values, a row     *)
(* built from floats holds floats until it is loaded again; numeric is     *)
(* that type, "None" while the row has no budget yet.  The amounts of the  *)
(* model are whole numbers, which both types hold exactly.                 *)
(***************************************************************************)
\* datetime.utcnow() at the time of a call
Times == {1, 2}
\* total_budget of the campaign
Budgets == {100}
BudgetAmounts == {0, 40, 100}
\* the Python types of a budget column's value and of an amount
ColumnTypes == {"Decimal", "float"}
AmountTypes == {"int", "Decimal", "float"}
\* the amounts of add_points and deduct_points
UserAmounts == {0, 30, 50}

\* the latest of the timestamps of the row; 0 when it has none
Latest(row) ==
    Max({0} \cup {row.approved_at[i] : i \in DOMAIN row.approved_at}
            \cup {row.started_at[i] : i \in DOMAIN row.started_at}
            \cup {row.completed_at[i] : i \in DOMAIN row.completed_at})

MethodResult(op, amount, result) == [op |-> op, amount |-> amount, result |-> result]

\* a Campaign with its budget: remaining_budget starts as total_budget
load_campaign(total_budget, numeric) ==
    /\ campaign_row' = [campaign_row EXCEPT !.remaining_budget = total_budget,
                                            !.numeric = numeric]
    /\ lastm' = MethodResult("load", total_budget, "None")

\* Campaign.approve
approve(now) ==
    /\ campaign_row' = [campaign_row EXCEPT !.status = "approved", !.approved_at = <<now>>]
    /\ lastm' = MethodResult("approve", 0, "None")

\* Campaign.reject
reject ==
    /\ campaign_row' = [campaign_row EXCEPT !.status = "rejected"]
    /\ lastm' = MethodResult("reject", 0, "None")

\* a variant of start without the test of the status
start_anyStatus(now) ==
    /\ campaign_row' = [campaign_row EXCEPT !.status = "active", !.started_at = <<now>>]
    /\ lastm' = MethodResult("start", 0, "None")

\* Campaign.start
start(now) ==
    /\ campaign_row' =
          IF campaign_row.status = "approved"
          THEN [campaign_row EXCEPT !.status = "active", !.started_at = <<now>>]
          ELSE campaign_row
    /\ lastm' = MethodResult("start", 0, "None")

\* Campaign.pause
pause ==
    /\ campaign_row' =
          IF campaign_row.status = "active"
          THEN [campaign_row EXCEPT !.status = "paused"]
          ELSE campaign_row
    /\ lastm' = MethodResult("pause", 0, "None")

\* Campaign.resume
resume ==
    /\ campaign_row' =
          IF campaign_row.status = "paused"
          THEN [campaign_row EXCEPT !.status = "active"]
          ELSE campaign_row
    /\ lastm' = MethodResult("resume", 0, "None")

\* Campaign.complete
complete_campaign(now) ==
    /\ campaign_row' = [campaign_row EXCEPT !.status = "completed", !.completed_at = <<now>>]
    /\ lastm' = MethodResult("complete", 0, "None")

\* Campaign.cancel
cancel_campaign ==
    /\ campaign_row' = [campaign_row EXCEPT !.status = "cancelled"]
    /\ lastm' = MethodResult("cancel", 0, "None")

\* Decimal - float and float - Decimal raise TypeError; the comparison
\* Decimal >= float does not
Unsupported(column_type, amount_type) ==
    {column_type, amount_type} = {"Decimal", "float"}

\* Campaign.deduct_budget: when the budget suffices, remaining_budget -= amount
\* comes first and raises before anything is assigned
deduct_budget(amount, amount_type) ==
    IF campaign_row.remaining_budget >= amount
    THEN IF Unsupported(campaign_row.numeric, amount_type)
         THEN /\ lastm' = MethodResult("deduct_budget", amount, "TypeError")
              /\ UNCHANGED campaign_row
         ELSE /\ campaign_row' = [campaign_row EXCEPT !.remaining_budget = @ - amount,
                                                      !.total_spent = @ + amount]
              /\ lastm' = MethodResult("deduct_budget", amount, "True")
    ELSE /\ lastm' = MethodResult("deduct_budget", amount, "False")
         /\ UNCHANGED campaign_row

\* User.add_points
add_points(amount) ==
    /\ user_row' = [user_row EXCEPT !.total_points = @ + amount,
                                    !.available_points = @ + amount]
    /\ lastm' = MethodResult("add_points", amount, "None")

\* a variant of Sufficient that is always true
Sufficient_always(row, amount) == TRUE

\* if self.available_points >= amount
Sufficient(row, amount) == row.available_points >= amount

\* User.deduct_points
deduct_points(amount) ==
    IF Sufficient(user_row, amount)
    THEN /\ user_row' = [user_row EXCEPT !.available_points = @ - amount]
         /\ lastm' = MethodResult("deduct_points", amount, "True")
    ELSE /\ lastm' = MethodResult("deduct_points", amount, "False")
         /\ UNCHANGED user_row

\* the other parts and the other row stay as they are
OnCampaign == UNCHANGED <<apiVars, raceVars, ormVars, scenVars, campVars, user_row>>
OnUser == UNCHANGED <<apiVars, raceVars, ormVars, scenVars, campVars, campaign_row>>

\* the budget is given once, before any other call
LoadCampaign(total_budget, numeric) ==
    campaign_row.numeric = "None" /\ load_campaign(total_budget, numeric) /\ OnCampaign
ApproveCampaign(now) == now >= Latest(campaign_row) /\ approve(now) /\ OnCampaign
RejectCampaign == reject /\ OnCampaign
StartCampaign(now) == now >= Latest(campaign_row) /\ start(now) /\ OnCampaign
PauseCampaign == pause /\ OnCampaign
ResumeCampaign == resume /\ OnCampaign
CompleteCampaign(now) == now >= Latest(campaign_row) /\ complete_campaign(now) /\ OnCampaign
CancelCampaign == cancel_campaign /\ OnCampaign
DeductBudget(amount, amount_type) ==
    campaign_row.numeric # "None" /\ deduct_budget(amount, amount_type) /\ OnCampaign
\* the model stops adding points once total_points would pass MaxPoints
AddPoints(amount) ==
    user_row.total_points + amount <= MaxPoints /\ add_points(amount) /\ OnUser
DeductPoints(amount) == deduct_points(amount) /\ OnUser

NextCampaignRow ==
    \/ \E b \in Budgets, t \in ColumnTypes : LoadCampaign(b, t)
    \/ \E now \in Times : ApproveCampaign(now)
    \/ RejectCampaign
    \/ \E now \in Times : StartCampaign(now)
    \/ PauseCampaign
    \/ ResumeCampaign
    \/ \E now \in Times : CompleteCampaign(now)
    \/ CancelCampaign
    \/ \E a \in BudgetAmounts, t \in AmountTypes : DeductBudget(a, t)

SpecCampaignRow == Init /\ [][NextCampaignRow]_vars

NextUser ==
    \/ \E a \in UserAmounts : AddPoints(a)
    \/ \E a \in UserAmounts : DeductPoints(a)

SpecUser == Init /\ [][NextUser]_vars

(***************************************************************************)
(* Claims about the points API.                                            *)
(***************************************************************************)
HasBalance(u) == u \in DOMAIN fake_points_db
\* the available points of a user; a user without a balance has none
Available(u) == IF HasBalance(u) THEN fake_points_db[u].available_points ELSE 0
BalanceOf(db, u) == IF u \in DOMAIN db THEN db[u] ELSE EmptyBalance
\* every entry of the ledger before the step is the same after it
EntriesKept ==
    \A t \in DOMAIN fake_transactions_db :
        /\ t \in DOMAIN fake_transactions_db'
        /\ fake_transactions_db'[t] = fake_transactions_db[t]
\* no balance but that of user u differs after the step
OthersKept(u) ==
    /\ DOMAIN fake_points_db' \subseteq DOMAIN fake_points_db \cup {u}
    /\ \A v \in DOMAIN fake_points_db :
          v # u => v \in DOMAIN fake_points_db' /\ fake_points_db'[v] = fake_points_db[v]

\* C1: every user's available_points is >= 0 in every reachable state.
C1_AvailableNonNegative ==
    \A u \in DOMAIN fake_points_db : fake_points_db[u].available_points >= 0

\* C2: when the requests in flight against a user with 100 available points
\* are exactly two spends of 80, then once both are handled exactly one was
\* served and the other was refused with "Insufficient points".
C2_ExactlyOneSpendSucceeds ==
    \A u \in Users :
        LET mine == {c \in DOMAIN clients : clients[c].user = u}
        IN  ( /\ clients # <<>>
              /\ \A c \in DOMAIN clients : clients[c].pc = "done"
              /\ u \in DOMAIN snap
              /\ snap[u].available_points = 100
              /\ Cardinality(mine) = 2
              /\ \A c \in mine : clients[c].points = 80 )
            => /\ Cardinality({c \in mine : clients[c].detail = "ok"}) = 1
               /\ Cardinality({c \in mine : clients[c].detail = "Insufficient points"}) = 1
               /\ fake_points_db[u].available_points = 20

\* C2 witness: both clients asked for 80 of one user's 100 and both were answered.
C2_Witness ==
    /\ clients # <<>>
    /\ \E u \in DOMAIN snap :
          /\ snap[u].available_points = 100
          /\ \A c \in DOMAIN clients :
                clients[c].user = u /\ clients[c].points = 80 /\ clients[c].pc = "done"

\* C3: a spend of more points than the caller has available (a caller
\* without a balance has none) is refused with "Insufficient points", adds no
\* entry and changes no balance.
C3_SpendRefused ==
    [][ (last'.op = "use" /\ Available(last'.user) < last'.points)
        => /\ last'.detail = "Insufficient points"
           /\ fake_transactions_db' = fake_transactions_db
           /\ fake_points_db' = fake_points_db ]_vars

\* C3 witness: a caller whose balance holds 0 available points was refused.
C3_Witness ==
    /\ last.op = "use"
    /\ last.detail = "Insufficient points"
    /\ HasBalance(last.user)
    /\ fake_points_db[last.user].available_points = 0
    /\ last.points > 0

\* C4: a served spend adds exactly one entry, of the spending kind, with
\* points = -points and status completed; the caller's available_points go
\* down and used_points go up by points; total, pending and expired points
\* and every other balance and entry stay as they were.
C4_SpendEffect ==
    [][ (last'.op = "use" /\ last'.detail = "ok")
        => LET u == last'.user
               p == last'.points
               t == last'.tid
           IN  /\ t \notin DOMAIN fake_transactions_db
               /\ DOMAIN fake_transactions_db' = DOMAIN fake_transactions_db \cup {t}
               /\ EntriesKept
               /\ fake_transactions_db'[t] =
                     [id |-> t, user_email |-> u, transaction_type |-> "used",
                      points |-> -p, status |-> "completed"]
               /\ HasBalance(u)
               /\ fake_points_db'[u].available_points = fake_points_db[u].available_points - p
               /\ fake_points_db'[u].used_points = fake_points_db[u].used_points + p
               /\ fake_points_db'[u].total_points = fake_points_db[u].total_points
               /\ fake_points_db'[u].pending_points = fake_points_db[u].pending_points
               /\ fake_points_db'[u].expired_points = fake_points_db[u].expired_points
               /\ OthersKept(u) ]_vars

\* C4 witness: a spend of a positive amount was served.
C4_Witness ==
    /\ last.op = "use"
    /\ last.detail = "ok"
    /\ last.points > 0
    /\ fake_transactions_db[last.tid].transaction_type = "used"

\* C5: earn adds one entry of kind earned with points = +points and status
\* pending and raises the caller's pending_points by points; the caller's
\* available_points and total_points are as before (0 for a caller who had
\* no balance), and stay so in every later step that does not approve the
\* entry or touch another entry.
C5_EarnPending ==
    [][ /\ (last'.op = "earn")
            => LET u == last'.user
                   p == last'.points
                   t == last'.tid
                   b == BalanceOf(fake_points_db, u)
               IN  /\ t \notin DOMAIN fake_transactions_db
                   /\ DOMAIN fake_transactions_db' = DOMAIN fake_transactions_db \cup {t}
                   /\ EntriesKept
                   /\ fake_transactions_db'[t] =
                         [id |-> t, user_email |-> u, transaction_type |-> "earned",
                          points |-> p, status |-> "pending"]
                   /\ fake_points_db'[u].pending_points = b.pending_points + p
                   /\ fake_points_db'[u].available_points = b.available_points
                   /\ fake_points_db'[u].total_points = b.total_points
        /\ \A t \in DOMAIN fake_transactions_db :
              LET e == fake_transactions_db[t]
              IN  ( /\ e.transaction_type = "earned"
                    /\ e.status = "pending"
                    /\ last'.tid = t
                    /\ fake_transactions_db'[t].status # "completed" )
                  => /\ fake_points_db'[e.user_email].available_points =
                           fake_points_db[e.user_email].available_points
                     /\ fake_points_db'[e.user_email].total_points =
                           fake_points_db[e.user_email].total_points ]_vars

\* C5 witness: an earn was served and its entry is pending.
C5_Witness ==
    /\ last.op = "earn"
    /\ last.points > 0
    /\ fake_transactions_db[last.tid].status = "pending"
    /\ fake_points_db[last.user].pending_points >= last.points

\* C6: approve of a pending entry completes it and, the entry being a credit
\* ("earned"), adds its points to the owner's available_points and
\* total_points and takes them from pending_points; approve of an entry that
\* is not pending answers "Transaction is not pending" and changes nothing; no
\* entry becomes pending again, so its points are credited at most once.
C6_ApproveOnce ==
    [][ /\ (last'.op = "approve" /\ last'.tid \in DOMAIN fake_transactions_db)
            => LET t == last'.tid
                   e == fake_transactions_db[t]
                   u == e.user_email
               IN  IF e.status = "pending"
                   THEN /\ last'.detail = "ok"
                        /\ fake_transactions_db' =
                              [fake_transactions_db EXCEPT ![t].status = "completed"]
                        /\ IF e.transaction_type = "earned"
                           THEN /\ HasBalance(u)
                                /\ fake_points_db' =
                                      [fake_points_db EXCEPT
                                         ![u].available_points = @ + e.points,
                                         ![u].pending_points = @ - e.points,
                                         ![u].total_points = @ + e.points]
                           ELSE fake_points_db' = fake_points_db
                   ELSE /\ last'.detail = "Transaction is not pending"
                        /\ fake_transactions_db' = fake_transactions_db
                        /\ fake_points_db' = fake_points_db
        /\ \A t \in DOMAIN fake_transactions_db :
              /\ t \in DOMAIN fake_transactions_db'
              /\ fake_transactions_db[t].status # "pending"
                    => fake_transactions_db'[t].status # "pending" ]_vars

\* C6 witness: an entry that was approved is approved a second time.
C6_Witness ==
    /\ last.op = "approve"
    /\ last.detail = "Transaction is not pending"
    /\ fake_transactions_db[last.tid].transaction_type = "earned"
    /\ fake_transactions_db[last.tid].status = "completed"
    /\ last.tid \notin {t \in DOMAIN InitTransactionsDb : InitTransactionsDb[t].status = "completed"}

\* C7: reject of a pending entry fails it and takes its points from the
\* owner's pending_points, leaving available_points and total_points alone;
\* a reject of an entry that is no longer pending (a second reject) answers
\* "Transaction is not pending" and changes no balance.
C7_RejectTwice ==
    [][ (last'.op = "reject" /\ last'.tid \in DOMAIN fake_transactions_db)
        => LET t == last'.tid
               e == fake_transactions_db[t]
               u == e.user_email
           IN  IF e.status = "pending"
               THEN /\ last'.detail = "ok"
                    /\ fake_transactions_db' =
                          [fake_transactions_db EXCEPT ![t].status = "failed"]
                    /\ HasBalance(u)
                    /\ fake_points_db' =
                          [fake_points_db EXCEPT ![u].pending_points = @ - e.points]
               ELSE /\ last'.detail = "Transaction is not pending"
                    /\ fake_transactions_db' = fake_transactions_db
                    /\ fake_points_db' = fake_points_db ]_vars

\* C7 witness: an entry that was rejected is rejected a second time.
C7_Witness ==
    /\ last.op = "reject"
    /\ last.detail = "Transaction is not pending"
    /\ fake_transactions_db[last.tid].status = "failed"

(***************************************************************************)
(* Claims about the phase-1 PointTransaction rows.                         *)
(***************************************************************************)
\* the rows that reverse the row id
ReversalsOf(table, id) ==
    {r \in DOMAIN table : table[r].related_transaction_id = <<id>>}
\* the rows that are reversals
Reversals(table) == {r \in DOMAIN table : table[r].related_transaction_id # <<>>}
OriginalOf(table, r) == table[r].related_transaction_id[1]
\* the rows the step added
Added == DOMAIN rows' \ DOMAIN rows

\* C8: every completed row whose balance snapshot is set, the adjustment that
\* reverse produces among them, has balance_after = balance_before + points.
C8_CompletedBalanced ==
    \A id \in DOMAIN rows :
        ( /\ rows[id].status = "completed"
          /\ rows[id].balance_before # <<>>
          /\ rows[id].balance_after # <<>> )
        => rows[id].balance_after[1] = rows[id].balance_before[1] + rows[id].points

\* C9: reverse is refused for a row whose status is not completed: no step
\* adds a reversal of such a row, so no row has two reversals.
C9_ReverseNeedsCompleted ==
    [][ /\ \A r \in Added :
              rows'[r].related_transaction_id # <<>>
                  => rows[OriginalOf(rows', r)].status = "completed"
        /\ \A id \in DOMAIN rows' : Cardinality(ReversalsOf(rows', id)) <= 1 ]_vars

\* C10: every reversal row is of kind adjusted, completed, carries the negated
\* points of the row it references, and a row is reversed exactly when a
\* reversal row references it.
C10_ReversedIffReversal ==
    /\ \A r \in Reversals(rows) :
          /\ OriginalOf(rows, r) \in DOMAIN rows
          /\ rows[r].transaction_type = "adjusted"
          /\ rows[r].status = "completed"
          /\ rows[r].points = -rows[OriginalOf(rows, r)].points
    /\ \A id \in DOMAIN rows :
          rows[id].status = "reversed" <=> ReversalsOf(rows, id) # {}

(***************************************************************************)
(* Claims about the round trip.                                            *)
(***************************************************************************)
\* the entries that name entry t as the transaction they reverse
LinkedTo(t) ==
    {r \in DOMAIN fake_transactions_db :
        /\ "related_transaction_id" \in DOMAIN fake_transactions_db[r]
        /\ fake_transactions_db[r].related_transaction_id = t}

\* C11: after earn(u, n), approve of that entry and reverse of that entry,
\* u's available_points equal their value before the earn, the entry is
\* reversed and exactly one entry is linked to it, an adjustment of -n.
C11_RoundTrip ==
    trip.pc = "reversed"
    => /\ Available(trip.user) = trip.before
       /\ fake_transactions_db[trip.tid].status = "reversed"
       /\ Cardinality(LinkedTo(trip.tid)) = 1
       /\ \A r \in LinkedTo(trip.tid) :
             /\ fake_transactions_db[r].transaction_type = "adjusted"
             /\ fake_transactions_db[r].points = -trip.points

(***************************************************************************)
(* Claims about the amounts and the state of the balances.                 *)
(***************************************************************************)
\* C12: an earn or a spend of points <= 0 is refused: it adds no entry and
\* changes no balance.
C12_InvalidAmountRefused ==
    [][ (last'.op \in {"earn", "use"} /\ last'.points <= 0)
        => /\ last'.detail # "ok"
           /\ fake_transactions_db' = fake_transactions_db
           /\ fake_points_db' = fake_points_db ]_vars

\* the entries of user u with one of the given types and the given status
EntriesOf(u, types, status) ==
    {t \in DOMAIN fake_transactions_db :
        /\ fake_transactions_db[t].user_email = u
        /\ fake_transactions_db[t].transaction_type \in types
        /\ fake_transactions_db[t].status = status}

RECURSIVE Magnitudes(_)
\* the sum of the magnitudes of the points of the entries ids
Magnitudes(ids) ==
    IF ids = {} THEN 0
    ELSE LET t == CHOOSE x \in ids : TRUE
         IN  Abs(fake_transactions_db[t].points) + Magnitudes(ids \ {t})

\* the types that add points and the types that take points away
CreditTypes == {"earned", "refunded", "bonus"}
DebitTypes == {"used", "spent", "expired", "penalty"}
AllTypes == CreditTypes \cup DebitTypes \cup {"adjusted"}

\* C14: for each user the completed credit magnitudes minus the completed
\* debit magnitudes of the ledger equal the user's available_points.
C14_LedgerMatchesAvailable ==
    \A u \in DOMAIN fake_points_db :
        Magnitudes(EntriesOf(u, CreditTypes, "completed"))
          - Magnitudes(EntriesOf(u, DebitTypes, "completed"))
        = fake_points_db[u].available_points

\* C15: each user's pending_points equal the sum of the magnitudes of the
\* user's pending entries.
C15_PendingMatchesLedger ==
    \A u \in DOMAIN fake_points_db :
        fake_points_db[u].pending_points = Magnitudes(EntriesOf(u, AllTypes, "pending"))

\* C16: each user's available_points are total_points less used_points less
\* expired_points, and total_points are the sum of the completed credit
\* magnitudes.
C16_AvailableIsTotalLessUsed ==
    \A u \in DOMAIN fake_points_db :
        /\ fake_points_db[u].available_points =
              fake_points_db[u].total_points - fake_points_db[u].used_points
                - fake_points_db[u].expired_points
        /\ fake_points_db[u].total_points =
              Magnitudes(EntriesOf(u, CreditTypes, "completed"))

(***************************************************************************)
(* Claims about the status of an entry.                                    *)
(***************************************************************************)
\* the status changes an entry may go through
StatusChanges ==
    {<<"pending", "completed">>, <<"pending", "failed">>, <<"completed", "reversed">>}

\* C17: the only status changes of an entry are pending to completed,
\* pending to failed and completed to reversed; an entry that is failed,
\* cancelled or reversed never changes status again.
C17_TerminalStatusKept ==
    [][ \A id \in DOMAIN rows :
          /\ rows'[id].status # rows[id].status
                => <<rows[id].status, rows'[id].status>> \in StatusChanges
          /\ rows[id].status \in {"failed", "cancelled", "reversed"}
                => rows'[id].status = rows[id].status ]_vars

(***************************************************************************)
(* Claims about refused calls and reads.                                   *)
(***************************************************************************)
\* the entries whose status differs after the step
StatusChanged ==
    {t \in DOMAIN fake_transactions_db :
        fake_transactions_db'[t].status # fake_transactions_db[t].status}

\* C18: a call that is answered with an error leaves every entry and every
\* balance as they were; approve or reject of an id that names no entry is
\* answered "Transaction not found"; and no call changes the status of an
\* earned entry without updating the owner's balance, or a balance without
\* changing a status when the call is an approve, a reject or a reverse.
C18_ErrorsChangeNothing ==
    [][ /\ last'.detail # "ok"
            => /\ fake_transactions_db' = fake_transactions_db
               /\ fake_points_db' = fake_points_db
        /\ (last'.op \in {"approve", "reject"} /\ last'.tid \notin DOMAIN fake_transactions_db)
            => last'.detail = "Transaction not found"
        /\ \A t \in StatusChanged :
              LET e == fake_transactions_db[t]
              IN  e.transaction_type = "earned"
                  => /\ e.user_email \in DOMAIN fake_points_db
                     /\ fake_points_db'[e.user_email] # fake_points_db[e.user_email]
        /\ (last'.op \in {"approve", "reject", "reverse"} /\ fake_points_db' # fake_points_db)
            => StatusChanged # {} ]_vars

(***************************************************************************)
(* Claims about the expiry.                                                *)
(***************************************************************************)
\* the rows of type expired that the step added for the points of row id
ExpiryDebits(id) ==
    {r \in DOMAIN rows' \ DOMAIN rows :
        /\ rows'[r].transaction_type = "expired"
        /\ rows'[r].user_id = rows[id].user_id
        /\ rows'[r].points = -Abs(rows[id].points)}

\* C19: the step that marks a row with an expiry date is_expired writes, in
\* the same step, exactly one debit row of type expired for its points.
C19_SweptWithDebit ==
    [][ \A id \in DOMAIN rows :
          (rows[id].expires_at # <<>> /\ ~rows[id].is_expired /\ rows'[id].is_expired)
          => Cardinality(ExpiryDebits(id)) = 1 ]_vars

(***************************************************************************)
(* Claims about the reads.                                                 *)
(***************************************************************************)
\* the users who own an entry of the ledger
Owners == {fake_transactions_db[t].user_email : t \in DOMAIN fake_transactions_db}

\* C20: GET /balance and GET /history leave the balances and the ledger
\* unchanged for any caller; a balance comes into existence only with its
\* user's first transaction and is never deleted.
C20_ReadsChangeNothing ==
    [][ /\ last'.op \in {"balance", "history"}
            => /\ fake_points_db' = fake_points_db
               /\ fake_transactions_db' = fake_transactions_db
        /\ \A u \in DOMAIN fake_points_db' \ DOMAIN fake_points_db :
              u \in {fake_transactions_db'[t].user_email : t \in DOMAIN fake_transactions_db'}
        /\ DOMAIN fake_points_db \subseteq DOMAIN fake_points_db' ]_vars

\* C20 as amended: GET /history changes nothing; GET /balance leaves the
\* ledger and every existing balance unchanged and stores an all-zero
\* balance for a caller who has none; a balance comes into existence only
\* with its user's first GET /balance or first earn, and is never deleted.
C20_ReadsKeepLedger ==
    [][ /\ last'.op = "history"
            => /\ fake_points_db' = fake_points_db
               /\ fake_transactions_db' = fake_transactions_db
        /\ last'.op = "balance"
            => /\ fake_transactions_db' = fake_transactions_db
               /\ DOMAIN fake_points_db' = DOMAIN fake_points_db \cup {last'.user}
               /\ \A u \in DOMAIN fake_points_db : fake_points_db'[u] = fake_points_db[u]
               /\ fake_points_db'[last'.user] = BalanceOf(fake_points_db, last'.user)
        /\ \A u \in DOMAIN fake_points_db' \ DOMAIN fake_points_db :
              last'.op \in {"balance", "earn"} /\ last'.user = u
        /\ DOMAIN fake_points_db \subseteq DOMAIN fake_points_db' ]_vars

\* C20 witness: a caller who owns no entry asked for the balance and now
\* has an all-zero balance stored.
C20_Witness ==
    /\ last.op = "balance"
    /\ last.user \notin Owners
    /\ last.user \notin DOMAIN InitPointsDb
    /\ last.user \in DOMAIN fake_points_db
    /\ fake_points_db[last.user] = EmptyBalance

(***************************************************************************)
(* Claims about concurrent calls.                                          *)
(***************************************************************************)
\* every call in flight has been answered
AllDone == clients # <<>> /\ \A c \in DOMAIN clients : clients[c].pc = "done"

\* C13: once the concurrent approve, reject and spend calls are answered,
\* the balances and the ledger are those that some serial order of the same
\* calls leaves; two concurrent approves of one pending entry credit it once.
C13_Linearized ==
    AllDone
    => /\ \E order \in Orders :
             ServeInOrder([points_db |-> snap, tx_db |-> sent], order, 1)
               = [points_db |-> fake_points_db, tx_db |-> fake_transactions_db]
       /\ \A t \in DOMAIN sent :
             ( /\ sent[t].status = "pending"
               /\ sent[t].transaction_type = "earned"
               /\ \A c \in DOMAIN clients :
                     clients[c].op = "approve" /\ clients[c].tid = t )
             => fake_points_db[sent[t].user_email].available_points =
                  snap[sent[t].user_email].available_points + sent[t].points

\* C13 witness: two concurrent approves of the same pending entry were
\* answered, one with ok and one with "Transaction is not pending".
C13_Witness ==
    /\ AllDone
    /\ \E t \in DOMAIN sent :
          /\ sent[t].status = "pending"
          /\ \A c \in DOMAIN clients : clients[c].op = "approve" /\ clients[c].tid = t
          /\ \E c \in DOMAIN clients : clients[c].detail = "ok"
          /\ \E c \in DOMAIN clients : clients[c].detail = "Transaction is not pending"

(***************************************************************************)
(* Claims about the identifiers and the signs of the entries.              *)
(***************************************************************************)
\* the step in which the clients send their calls; no handler runs in it
Sending == clients = <<>> /\ clients' # <<>>

\* C21: every entry an earn or a spend creates, in whatever order the calls
\* are run, gets an identifier greater than every identifier of the ledger
\* before the call; an entry is stored under its own identifier, so no two
\* entries share one, and no identifier leaves the ledger.
C21_IdsIncrease ==
    [][ /\ (last'.op \in {"earn", "use"} /\ last'.detail = "ok" /\ ~Sending)
            => /\ DOMAIN fake_transactions_db' = DOMAIN fake_transactions_db \cup {last'.tid}
               /\ \A t \in DOMAIN fake_transactions_db : last'.tid > t
        /\ DOMAIN fake_transactions_db \subseteq DOMAIN fake_transactions_db'
        /\ \A t \in DOMAIN fake_transactions_db' : fake_transactions_db'[t].id = t ]_vars

\* C21 witness: after an entry of the set-up, both concurrent spends were
\* served, so three entries were created one after another.
C21_Witness ==
    /\ AllDone
    /\ \A c \in DOMAIN clients : clients[c].op = "use" /\ clients[c].detail = "ok"
    /\ Cardinality(DOMAIN fake_transactions_db) = Cardinality(DOMAIN InitTransactionsDb) + 3

\* C22: every entry of a credit type has strictly positive points and every
\* entry of a debit type has strictly negative points.
C22_SignMatchesKind ==
    \A t \in DOMAIN fake_transactions_db :
        /\ fake_transactions_db[t].transaction_type \in CreditTypes
              => fake_transactions_db[t].points > 0
        /\ fake_transactions_db[t].transaction_type \in DebitTypes
              => fake_transactions_db[t].points < 0

(***************************************************************************)
(* Claims about the callers of approve and reject.                         *)
(***************************************************************************)
\* C23: only the administrator moves an entry from pending to completed or
\* to failed.
C23_AdminOnly ==
    [][ \A t \in StatusChanged :
          (fake_transactions_db[t].status = "pending"
             /\ fake_transactions_db'[t].status \in {"completed", "failed"})
          => last'.user = Admin ]_vars

\* C25: every user's pending_points are >= 0 in every reachable state.
C25_PendingNonNegative ==
    \A u \in DOMAIN fake_points_db : fake_points_db[u].pending_points >= 0

(***************************************************************************)
(* Claims about calls on different users.                                  *)
(***************************************************************************)
NoUser == ""
\* the user whose balance and entries a call is about: the caller of an earn
\* or a spend, the owner of the entry of an approve or a reject
Subject(op, user, tid, ledger) ==
    IF op \in {"earn", "use"} THEN user
    ELSE IF tid \in DOMAIN ledger THEN ledger[tid].user_email
    ELSE NoUser

\* the step changes no balance and no entry of a user other than u, and adds
\* no entry of another user
OnlyTouches(u) ==
    /\ OthersKept(u)
    /\ \A t \in DOMAIN fake_transactions_db :
          fake_transactions_db[t].user_email # u
          => fake_transactions_db'[t] = fake_transactions_db[t]
    /\ \A t \in DOMAIN fake_transactions_db' \ DOMAIN fake_transactions_db :
          fake_transactions_db'[t].user_email = u

\* the two calls in flight are about two different users
DifferentSubjects ==
    /\ AllDone
    /\ \A c, d \in DOMAIN clients :
          c # d => Subject(clients[c].op, clients[c].user, clients[c].tid, sent)
                     # Subject(clients[d].op, clients[d].user, clients[d].tid, sent)

\* an entry without its identifier
Content(e) ==
    [user_email |-> e.user_email, transaction_type |-> e.transaction_type,
     points |-> e.points, status |-> e.status]
Contents(ledger) == {Content(ledger[t]) : t \in DOMAIN ledger}

\* C24: a call about user A changes no balance and no entry of another
\* user, and calls about different users commute: run in either order they
\* leave the same balances and the same ledger.
C24_Commute ==
    /\ [][ ~Sending
           => OnlyTouches(Subject(last'.op, last'.user, last'.tid, fake_transactions_db)) ]_vars
    /\ [](DifferentSubjects
          => \A order \in Orders :
                ServeInOrder([points_db |-> snap, tx_db |-> sent], order, 1)
                  = [points_db |-> fake_points_db, tx_db |-> fake_transactions_db])

\* C24 as amended: a call about user A changes no balance and no entry of
\* another user; calls about different users, run in either order, leave the
\* same balances and the same entries up to the identifiers, which follow
\* the order in which the calls were run.
C24_CommuteUpToIds ==
    /\ [][ ~Sending
           => OnlyTouches(Subject(last'.op, last'.user, last'.tid, fake_transactions_db)) ]_vars
    /\ [](DifferentSubjects
          => \A order \in Orders :
                LET serial == ServeInOrder([points_db |-> snap, tx_db |-> sent], order, 1)
                IN  /\ serial.points_db = fake_points_db
                    /\ DOMAIN serial.tx_db = DOMAIN fake_transactions_db
                    /\ Contents(serial.tx_db) = Contents(fake_transactions_db))

\* C24 witness: two users spent at the same time and both were served.
C24_Witness ==
    /\ DifferentSubjects
    /\ \A c \in DOMAIN clients : clients[c].op = "use" /\ clients[c].detail = "ok"

(***************************************************************************)
(* Claims about the campaigns API.                                         *)
(***************************************************************************)
\* C26: claim_reward sets reward_claimed only for the owner of a completed
\* participation whose reward is not claimed yet, and is answered ok exactly
\* then; reward_claimed never goes back to false; the status of a
\* participation only changes from pending_review to completed or rejected.
C26_RewardClaimedOnce ==
    [][ \A p \in DOMAIN fake_participations_db :
          LET old == fake_participations_db[p]
              new == fake_participations_db'[p]
          IN  /\ (~old.reward_claimed /\ new.reward_claimed)
                    => /\ lastc'.op = "claim" /\ lastc'.id = p /\ lastc'.detail = "ok"
                       /\ lastc'.user = old.user_email
                       /\ old.status = "completed"
              /\ (lastc'.op = "claim" /\ lastc'.id = p /\ lastc'.detail = "ok")
                    => /\ lastc'.user = old.user_email
                       /\ old.status = "completed"
                       /\ ~old.reward_claimed
                       /\ new.reward_claimed
              /\ old.reward_claimed => new.reward_claimed
              /\ new.status # old.status
                    => /\ old.status = "pending_review"
                       /\ new.status \in {"completed", "rejected"} ]_vars

\* C26 witness: a user took part in a campaign, the participation was
\* approved and the user claimed the reward.
C26_Witness ==
    /\ lastc.op = "claim"
    /\ lastc.detail = "ok"
    /\ lastc.id \notin DOMAIN InitParticipationsDb
    /\ fake_participations_db[lastc.id].reward_claimed
    /\ fake_participations_db[lastc.id].user_email = lastc.user

\* C27: a participate that is served raises the campaign's
\* current_participants by exactly one and, when the campaign has a
\* max_participants, leaves them at most max_participants; a participate that
\* is refused changes nothing; no user has two participations in a campaign.
C27_ParticipantsCapped ==
    [][ /\ \A c \in DOMAIN fake_campaigns_db :
              (lastc'.op = "participate" /\ lastc'.id = c /\ lastc'.detail = "ok")
              => /\ fake_campaigns_db'[c].current_participants =
                       fake_campaigns_db[c].current_participants + 1
                 /\ fake_campaigns_db[c].max_participants # <<>>
                       => fake_campaigns_db'[c].current_participants
                            <= fake_campaigns_db[c].max_participants[1]
        /\ (lastc'.op = "participate" /\ lastc'.detail # "ok")
              => /\ fake_campaigns_db' = fake_campaigns_db
                 /\ fake_participations_db' = fake_participations_db
        /\ \A p, q \in DOMAIN fake_participations_db' :
              ( /\ fake_participations_db'[p].campaign_id = fake_participations_db'[q].campaign_id
                /\ fake_participations_db'[p].user_email = fake_participations_db'[q].user_email )
              => p = q ]_vars

(***************************************************************************)
(* Claims about the phase-1 Campaign and User classes.                     *)
(***************************************************************************)
Stamps(row) == <<row.approved_at, row.started_at, row.completed_at>>
Kept == campaign_row'.status = campaign_row.status /\ Stamps(campaign_row') = Stamps(campaign_row)

\* C28: the status becomes active only by start() from approved or by
\* resume() from paused, and paused only by pause() from active; start, pause
\* and resume called from any other status leave the status and the
\* timestamps as they are; approve, reject, complete and cancel set their
\* status whatever the current one.
C28_StatusMachine ==
    [][/\ (campaign_row'.status = "active" /\ campaign_row.status # "active")
              => \/ lastm'.op = "start" /\ campaign_row.status = "approved"
                 \/ lastm'.op = "resume" /\ campaign_row.status = "paused"
       /\ (campaign_row'.status = "paused" /\ campaign_row.status # "paused")
              => lastm'.op = "pause" /\ campaign_row.status = "active"
       /\ (lastm'.op = "start" /\ campaign_row.status # "approved") => Kept
       /\ (lastm'.op = "pause" /\ campaign_row.status # "active") => Kept
       /\ (lastm'.op = "resume" /\ campaign_row.status # "paused") => Kept
       /\ lastm'.op = "approve" => campaign_row'.status = "approved"
       /\ lastm'.op = "reject" => campaign_row'.status = "rejected"
       /\ lastm'.op = "complete" => campaign_row'.status = "completed"
       /\ lastm'.op = "cancel" => campaign_row'.status = "cancelled"]_vars

\* start() was called on a paused campaign, which stayed paused
C28_Witness ==
    /\ lastm.op = "start"
    /\ campaign_row.status = "paused"
    /\ campaign_row.started_at # <<>>

\* C29: 0 <= available_points <= total_points after any calls of add_points
\* and deduct_points with amounts >= 0; deduct_points returns False exactly
\* when available_points < amount, then changes nothing, and never changes
\* total_points.
C29_PointsBounded ==
    /\ [](0 <= user_row.available_points
            /\ user_row.available_points <= user_row.total_points)
    /\ [][lastm'.op = "deduct_points"
            => /\ user_row'.total_points = user_row.total_points
               /\ lastm'.result = "False" <=> user_row.available_points < lastm'.amount
               /\ lastm'.result = "False" => user_row' = user_row
               /\ lastm'.result = "True"
                    => user_row'.available_points = user_row.available_points - lastm'.amount]_vars

\* deduct_points has refused an amount above the available points
C29_Witness ==
    /\ lastm.op = "deduct_points"
    /\ lastm.result = "False"
    /\ user_row.available_points > 0
    /\ user_row.available_points < user_row.total_points

\* C30: deduct_budget(amount) with amount >= 0 keeps remaining_budget +
\* total_spent and remaining_budget >= 0: it returns True and moves amount
\* from remaining_budget to total_spent when remaining_budget >= amount, and
\* otherwise returns False and changes neither field.
C30_BudgetConserved ==
    /\ [](campaign_row.remaining_budget >= 0)
    /\ [][lastm'.op = "deduct_budget"
            => /\ campaign_row'.remaining_budget + campaign_row'.total_spent
                    = campaign_row.remaining_budget + campaign_row.total_spent
               /\ IF campaign_row.remaining_budget >= lastm'.amount
                  THEN /\ lastm'.result = "True"
                       /\ campaign_row'.remaining_budget
                             = campaign_row.remaining_budget - lastm'.amount
                       /\ campaign_row'.total_spent
                             = campaign_row.total_spent + lastm'.amount
                  ELSE /\ lastm'.result = "False"
                       /\ campaign_row' = campaign_row]_vars
====
